---- MODULE Spec2Model ----
(***************************************************************************)
(* Model of the manta-signer password handshake (ui/src-tauri/src/main.rs), *)
(* the password container (src/secret.rs) and the setup resolver            *)
(* (src/config.rs).                                                         *)
(*                                                                          *)
(* The producer side is the PasswordStore (load / load_exact / clear /     *)
(* into_channel) behind an async Mutex<Option<PasswordStoreChannel>>; the   *)
(* consumer side is the User authorizer (wake / password / sleep).  The two *)
(* sides are connected by two bounded channels of capacity 1.               *)
(***************************************************************************)
EXTENDS Integers, Sequences, FiniteSets, TLC

\* ------------------------------------------------------------------ bounds
\* number of front-end commands (load / load_exact / clear) in progress at once
MaxInFlight == 2
\* number of times the store can be armed by into_channel (SpecDetach only)
MaxArms == 2
\* number of directories above the data file that the resolver may create
Depth == 2
\* length up to which every byte string is tried as a secret
MaxLen == 2

\* ------------------------------------------------------- program constants
\* channel(1): capacity of the password channel and of the retry channel
ChannelCapacity == 1

Calls == 1..MaxInFlight
Gens == 1..MaxArms

\* secret strings a front-end may submit (the empty string included)
SecretStrings == {<<>>, <<7>>}

VARIABLES
    store,      \* Mutex<Option<PasswordStoreChannel>> content: 0 = None, g = channel pair g
    lockHolder, \* who holds the Mutex: NoHolder or a command
    lockQueue,  \* FIFO of tasks suspended in lock().await
    armPc,      \* position of the task running into_channel
    pc,         \* position of every front-end command
    op,         \* which entry point the command runs
    arg,        \* the SecretString it was given, until it is moved into the channel
    ret,        \* what a command returned to the front-end in the step just taken
    password,   \* password channel of every pair: Seq of [pw, id]
    retry,      \* retry channel of every pair: Seq of [val, for]
    cpc,        \* position of the consumer (User inside the service loop) of every pair
    waiting,    \* User.waiting
    returned,   \* the Password the last password() call returned, until the next call
    lastId,     \* history: which command's password the last password() returned
    pending,    \* history: passwords sent and not yet returned by password()
    owed,       \* history: the oldest such password when password() last returned
    expect,     \* history: what the consumer did with the password of the load holding the lock
    detached,   \* history: the command holding the lock found the User of the pair gone
    fs,         \* filesystem seen by Config::setup
    fsBefore,   \* history: the filesystem when Config::setup was called
    spc,        \* position of Config::setup
    meta,       \* what fs::metadata answered
    sres,       \* what Config::setup returned
    secBytes,   \* bytes handed to a Password constructor
    secCtor,    \* which constructor builds the Password
    secPc,      \* position of the code that builds and inspects the Password
    secPwd,     \* the Password, while it is owned (Seq of length 0 or 1)
    secIsKnown, \* the answer of is_known(), once asked
    secSteps,   \* the steps the evaluation of is_known() went through
    secKnown    \* the Option returned by known(), once called

hvars == <<store, lockHolder, lockQueue, armPc, pc, op, arg, ret, password, retry,
           cpc, waiting, returned, lastId, pending, owed, expect, detached>>
svars == <<fs, fsBefore, spc, meta, sres>>
pvars == <<secBytes, secCtor, secPc, secPwd, secIsKnown, secSteps, secKnown>>
vars == <<hvars, svars, pvars>>

NoHolder == -1
\* the task running into_channel waits for the lock under this identity
Armer == 0
\* history tag of a password: the command in progress that sent it, if any
Gone == {}

\* ------------------------------------------------------------ secret.rs
\* Password(CtOption<SecretBytes>): a value and a Choice
new(pw, known_choice) == [value |-> pw, is_some |-> known_choice]

from_known(pw) == new(pw, 1)

\* Secret::new(Vec::with_capacity(64)): an empty vector
from_unknown == new(<<>>, 0)

\* mutant: the conversion into Option ignores the presence Choice
known_always(p) == <<p.value>>

\* Option<SecretBytes>, as a sequence of length 0 or 1
known(p) == IF p.is_some = 1 THEN <<p.value>> ELSE <<>>

is_known(p) == p.is_some = 1

Passwords == {from_known(s) : s \in SecretStrings} \cup {from_unknown}

\* ------------------------------------------------- bounded mpsc channels
\* mutant: the channel takes a message whatever it holds
ChanAlwaysRoom(ch) == Len(ch) >= 0

ChanHasRoom(ch) == Len(ch) < ChannelCapacity

ChanPush(ch, m) == Append(ch, m)

\* mutant: a receive leaves the message in the channel
ChanPopKeep(ch) == ch

ChanPop(ch) == Tail(ch)

\* the consumer's channel ends (Receiver<Password>, Sender<bool>) live in the User
UserAlive(g) == cpc[g] \notin {"none", "panicked", "dropped"}

\* the producer's ends (Sender<Password>, Receiver<bool>) live in the store
StoreHolds(g) == store = g

\* ------------------------------------------------------------- main.rs
\* no command returned in this step
NoReturn == [op |-> "none", result |-> "pending", got |-> "none", expect |-> "none",
             detached |-> FALSE]

\* PasswordStore::default(): the store is None, nobody runs, no User exists
HandshakeInit ==
    /\ store = 0
    /\ lockHolder = NoHolder
    /\ lockQueue = <<>>
    /\ armPc = "idle"
    /\ pc = [c \in Calls |-> "idle"]
    /\ op = [c \in Calls |-> "none"]
    /\ arg = [c \in Calls |-> <<>>]
    /\ ret = NoReturn
    /\ password = [g \in Gens |-> <<>>]
    /\ retry = [g \in Gens |-> <<>>]
    /\ cpc = [g \in Gens |-> "none"]
    /\ waiting = [g \in Gens |-> FALSE]
    /\ returned = [g \in Gens |-> <<>>]
    /\ lastId = [g \in Gens |-> Gone]
    /\ pending = [g \in Gens |-> <<>>]
    /\ owed = [g \in Gens |-> <<>>]
    /\ expect = "none"
    /\ detached = FALSE

\* a front-end command is invoked (send_password, get_mnemonic,
\* stop_password_prompt) and suspends in self.0.lock().await
Invoke(c, o, s) ==
    /\ pc[c] = "idle"
    /\ \A d \in Calls : d < c => pc[d] # "idle"
    /\ pc' = [pc EXCEPT ![c] = "lock"]
    /\ op' = [op EXCEPT ![c] = o]
    /\ arg' = [arg EXCEPT ![c] = s]
    /\ lockQueue' = Append(lockQueue, c)
    /\ UNCHANGED <<store, lockHolder, armPc, password, retry, cpc, waiting,
                   returned, lastId, pending, expect, detached, owed, svars, pvars>>
    /\ ret' = NoReturn

\* mutant: load reports a retry when there is no store
NoStoreResultRetry(o) == IF o = "load" THEN "true" ELSE "unit"

\* what an entry point returns from the else branch of `if let Some(store)`
NoStoreResult(o) == IF o = "load" THEN "false" ELSE "unit"

\* history tags naming command c are forgotten once c has returned
ForgetMsg(m, c) == IF m.id = {c} THEN [m EXCEPT !.id = Gone] ELSE m

ForgetVerdict(v, c) == IF v.for = {c} THEN [v EXCEPT !.for = Gone] ELSE v

ForgetMsgs(q, c) == [i \in 1..Len(q) |-> ForgetMsg(q[i], c)]

ForgetVerdicts(q, c) == [i \in 1..Len(q) |-> ForgetVerdict(q[i], c)]

\* command c returns `r` to the front-end and its task ends; `got` tells
\* whether the retry message it received was sent for its own password
Return(c, r, got) ==
    /\ pc' = [pc EXCEPT ![c] = "idle"]
    /\ op' = [op EXCEPT ![c] = "none"]
    /\ arg' = [arg EXCEPT ![c] = <<>>]
    /\ ret' = [op |-> op[c], result |-> r, got |-> got,
               expect |-> IF lockHolder = c THEN expect ELSE "none",
               detached |-> IF lockHolder = c THEN detached ELSE FALSE]
    /\ lastId' = [g \in Gens |-> IF lastId[g] = {c} THEN Gone ELSE lastId[g]]
    /\ expect' = "none"
    /\ detached' = FALSE

\* mutant: lock() is granted although a guard is alive
MutexFreeAlways == TRUE

\* tokio Mutex: lock() is granted only when no MutexGuard is alive
MutexFree == lockHolder = NoHolder

\* the Mutex is granted in FIFO order.  With Some(store) the guard is kept for
\* the whole `if let` body; with None the else branch returns and drops it.
Lock(c, o) ==
    /\ pc[c] = "lock"
    /\ op[c] = o
    /\ MutexFree
    /\ lockQueue # <<>>
    /\ Head(lockQueue) = c
    /\ lockQueue' = Tail(lockQueue)
    /\ IF store = 0
       THEN /\ Return(c, NoStoreResult(o), "none")
            /\ UNCHANGED lockHolder
       ELSE /\ pc' = [pc EXCEPT ![c] = "send"]
            /\ lockHolder' = c
            /\ detached' = ~UserAlive(store)
            /\ UNCHANGED <<op, arg, lastId, expect>>
            /\ ret' = NoReturn
    /\ UNCHANGED <<store, armPc, password, retry, cpc, waiting, returned, pending,
                   owed, svars, pvars>>

\* `let _ = store.password.send(p).await`: waits for capacity; with the
\* Receiver dropped the send fails at once and the error is discarded
SendPassword(c, p, tag) ==
    IF UserAlive(store)
    THEN /\ ChanHasRoom(password[store])
         /\ password' = [password EXCEPT ![store] = ChanPush(@, [pw |-> p, id |-> tag])]
         /\ pending' = [pending EXCEPT ![store] = Append(@, [pw |-> p, id |-> tag])]
    ELSE UNCHANGED <<password, pending>>

\* load_exact and clear: send, drop the guard, return ()
SendAndReturn(c, o, p) ==
    /\ pc[c] = "send"
    /\ op[c] = o
    /\ lockHolder = c
    /\ SendPassword(c, p, Gone)
    /\ Return(c, "unit", "none")
    /\ lockHolder' = NoHolder
    /\ UNCHANGED <<store, lockQueue, armPc, retry, cpc, waiting, returned, owed, svars, pvars>>

\* the boolean `load` returns for a received retry message
LoadResult(b) == IF b THEN "true" ELSE "false"

load_call(c, s) == Invoke(c, "load", s)

load_lock(c) == Lock(c, "load")

\* load: send, then go on to `store.retry.recv()` with the guard still held
load_send(c) ==
    /\ pc[c] = "send"
    /\ op[c] = "load"
    /\ lockHolder = c
    /\ SendPassword(c, from_known(arg[c]), {c})
    /\ pc' = [pc EXCEPT ![c] = "recv"]
    /\ arg' = [arg EXCEPT ![c] = <<>>]
    /\ UNCHANGED <<store, lockHolder, lockQueue, armPc, op, retry, cpc, waiting,
                   returned, lastId, expect, detached, owed, svars, pvars>>
    /\ ret' = NoReturn

\* `store.retry.recv().await.unwrap()`: a buffered message is returned even
\* when the Sender is gone; None (Sender gone, buffer empty) panics, and the
\* unwinding drops the guard.
load_recv(c) ==
    /\ pc[c] = "recv"
    /\ op[c] = "load"
    /\ lockHolder = c
    /\ IF retry[store] # <<>>
       THEN /\ retry' = [retry EXCEPT ![store] = ForgetVerdicts(ChanPop(@), c)]
            /\ Return(c, LoadResult(Head(retry[store]).val),
                      IF Head(retry[store]).for = {c} THEN "own" ELSE "other")
       ELSE /\ ~UserAlive(store)
            /\ Return(c, "panic", "none")
            /\ UNCHANGED retry
    /\ lockHolder' = NoHolder
    /\ password' = [g \in Gens |-> ForgetMsgs(password[g], c)]
    /\ pending' = [g \in Gens |-> ForgetMsgs(pending[g], c)]
    /\ UNCHANGED <<store, lockQueue, armPc, cpc, waiting, returned, owed, svars, pvars>>

load_exact_call(c, s) == Invoke(c, "load_exact", s)

load_exact_lock(c) == Lock(c, "load_exact")

load_exact_send(c) == SendAndReturn(c, "load_exact", from_known(arg[c]))

clear_call(c) == Invoke(c, "clear", <<>>)

clear_lock(c) == Lock(c, "clear")

\* mutant: clear sends an empty password marked as known
clear_send_known(c) == SendAndReturn(c, "clear", from_known(<<>>))

clear_send(c) == SendAndReturn(c, "clear", from_unknown)

\* PasswordStoreHandle::into_channel: both channels are created, the task
\* suspends in lock().await
InvokeArm ==
    /\ armPc = "idle"
    /\ armPc' = "lock"
    /\ lockQueue' = Append(lockQueue, Armer)
    /\ UNCHANGED <<store, lockHolder, pc, op, arg, password, retry, cpc,
                   waiting, returned, lastId, pending, expect, detached, owed, svars, pvars>>
    /\ ret' = NoReturn

\* main(): the setup closure spawns one task that arms the store once
into_channel_call ==
    /\ store = 0
    /\ InvokeArm

\* PasswordStore::handle is public and hands out any number of handles: a
\* further into_channel replaces the pair the store holds
into_channel_again ==
    /\ store > 0
    /\ store < MaxArms
    /\ InvokeArm

\* `*self.0.lock().await = Some(PasswordStoreChannel { password, retry })`,
\* then `User::new(window, password, retry, ..)` with waiting: false.
\* The assignment drops the pair the store held: its Sender<Password> and its
\* Receiver<bool>, with the retry messages still buffered in it.
into_channel_lock ==
    /\ armPc = "lock"
    /\ MutexFree
    /\ lockQueue # <<>>
    /\ Head(lockQueue) = Armer
    /\ lockQueue' = Tail(lockQueue)
    /\ armPc' = "idle"
    /\ store' = store + 1
    /\ retry' = [g \in Gens |-> IF g = store THEN <<>> ELSE retry[g]]
    /\ cpc' = [cpc EXCEPT ![store + 1] = "idle"]
    /\ waiting' = [waiting EXCEPT ![store + 1] = FALSE]
    /\ UNCHANGED <<lockHolder, pc, op, arg, password, returned, lastId, pending,
                   expect, detached, owed, svars, pvars>>
    /\ ret' = NoReturn

\* Authorizer::wake: emits the prompt to the window and returns
wake(g) ==
    /\ cpc[g] = "idle"
    /\ cpc' = [cpc EXCEPT ![g] = "awake"]
    /\ UNCHANGED <<store, lockHolder, lockQueue, armPc, pc, op, arg, password,
                   retry, waiting, returned, lastId, pending, expect, detached, owed, svars, pvars>>
    /\ ret' = NoReturn

\* is the load that sent the last returned password suspended in retry.recv()
Parked(g) ==
    /\ lastId[g] # Gone
    /\ \A c \in lastId[g] : op[c] = "load" /\ pc[c] = "recv"

\* mutant: every password() call sends a retry message first
FirstSuspensionAlways(w) == "retry_send"

\* `if self.waiting { self.should_retry(true).await }`: where
\* request_password suspends first
FirstSuspension(w) == IF w THEN "retry_send" ELSE "password_recv"

\* Authorizer::password -> request_password, up to its first suspension
password_call(g) ==
    /\ cpc[g] \in {"awake", "got"}
    /\ cpc' = [cpc EXCEPT ![g] = FirstSuspension(waiting[g])]
    /\ returned' = [returned EXCEPT ![g] = <<>>]
    /\ owed' = [owed EXCEPT ![g] = <<>>]
    /\ expect' = IF waiting[g] /\ Parked(g) THEN "true" ELSE expect
    /\ UNCHANGED <<store, lockHolder, lockQueue, armPc, pc, op, arg, password,
                   retry, waiting, lastId, pending, detached, svars, pvars>>
    /\ ret' = NoReturn

\* a panic of the service task unwinds it and drops the User: its
\* Receiver<Password>, with the passwords buffered in it, and its Sender<bool>
UserGone(g, how) ==
    /\ cpc' = [cpc EXCEPT ![g] = how]
    /\ password' = [password EXCEPT ![g] = <<>>]
    /\ waiting' = [waiting EXCEPT ![g] = FALSE]
    /\ returned' = [returned EXCEPT ![g] = <<>>]
    /\ owed' = [owed EXCEPT ![g] = <<>>]
    /\ lastId' = [lastId EXCEPT ![g] = Gone]

\* should_retry: `self.retry.send(retry).await.expect(..)`: waits for
\* capacity; with the Receiver dropped the send fails and expect panics
should_retry(g, b, from, to) ==
    /\ cpc[g] = from
    /\ IF StoreHolds(g)
       THEN /\ ChanHasRoom(retry[g])
            /\ retry' = [retry EXCEPT ![g] = ChanPush(@, [val |-> b, for |-> lastId[g]])]
            /\ cpc' = [cpc EXCEPT ![g] = to]
            /\ UNCHANGED <<password, waiting, returned, owed, lastId>>
       ELSE /\ UserGone(g, "panicked")
            /\ UNCHANGED retry
    /\ UNCHANGED <<store, lockHolder, lockQueue, armPc, pc, op, arg, pending,
                   expect, detached, svars, pvars>>
    /\ ret' = NoReturn

should_retry_true(g) == should_retry(g, TRUE, "retry_send", "password_recv")

\* request_password after the retry message: `self.password.recv().await
\* .expect(..)`, `self.waiting = password.is_known()`, return the password.
\* recv yields None, and expect panics, when the Sender is dropped and nothing
\* is buffered.
request_password(g) ==
    /\ cpc[g] = "password_recv"
    /\ IF password[g] # <<>>
       THEN /\ password' = [password EXCEPT ![g] = ChanPop(@)]
            /\ waiting' = [waiting EXCEPT ![g] = is_known(Head(password[g]).pw)]
            /\ returned' = [returned EXCEPT ![g] = <<Head(password[g]).pw>>]
            /\ lastId' = [lastId EXCEPT ![g] = Head(password[g]).id]
            /\ pending' = [pending EXCEPT ![g] = IF @ = <<>> THEN @ ELSE Tail(@)]
            /\ owed' = [owed EXCEPT ![g] = IF pending[g] = <<>> THEN <<>>
                                           ELSE <<Head(pending[g]).pw>>]
            /\ cpc' = [cpc EXCEPT ![g] = "got"]
       ELSE /\ ~StoreHolds(g)
            /\ UserGone(g, "panicked")
            /\ UNCHANGED pending
    /\ UNCHANGED <<store, lockHolder, lockQueue, armPc, pc, op, arg, retry,
                   expect, detached, svars, pvars>>
    /\ ret' = NoReturn

\* the payloads a round can be closed with
Messages == {"Ok", "Err"}

\* mutant: only a successful round resets the waiting flag
sleep_on_success(g, message) ==
    /\ cpc[g] = "got"
    /\ message \in Messages
    /\ waiting' = [waiting EXCEPT ![g] = IF message = "Ok" THEN FALSE ELSE @]
    /\ returned' = [returned EXCEPT ![g] = <<>>]
    /\ cpc' = [cpc EXCEPT ![g] = "validate_send"]
    /\ owed' = [owed EXCEPT ![g] = <<>>]
    /\ expect' = IF Parked(g) THEN "false" ELSE expect
    /\ UNCHANGED <<store, lockHolder, lockQueue, armPc, pc, op, arg, password,
                   retry, lastId, pending, detached, svars, pvars>>
    /\ ret' = NoReturn

\* Authorizer::sleep -> validate_password, up to its suspension:
\* `let _ = message; self.waiting = false;`
sleep(g, message) ==
    /\ cpc[g] = "got"
    /\ message \in Messages
    /\ waiting' = [waiting EXCEPT ![g] = FALSE]
    /\ returned' = [returned EXCEPT ![g] = <<>>]
    /\ cpc' = [cpc EXCEPT ![g] = "validate_send"]
    /\ owed' = [owed EXCEPT ![g] = <<>>]
    /\ expect' = IF Parked(g) THEN "false" ELSE expect
    /\ UNCHANGED <<store, lockHolder, lockQueue, armPc, pc, op, arg, password,
                   retry, lastId, pending, detached, svars, pvars>>
    /\ ret' = NoReturn

\* validate_password: `self.should_retry(false).await`
validate_password(g) == should_retry(g, FALSE, "validate_send", "idle")

\* Authorizer::success, the provided method: `self.sleep(Ok(message))`
success(g) == sleep(g, "Ok")

\* Authorizer::failure, the provided method: `self.sleep(Err(error))`
failure(g) == sleep(g, "Err")

\* the task spawned in main() ends (serve() returns or panics): the User is
\* dropped
drop_user(g) ==
    /\ UserAlive(g)
    /\ UserGone(g, "dropped")
    /\ UNCHANGED <<store, lockHolder, lockQueue, armPc, pc, op, arg, retry,
                   pending, expect, detached, svars, pvars>>
    /\ ret' = NoReturn

\* ------------------------------------------------------------ config.rs
\* The data path is base/d1/../dDepth/data.  `fs.dirs[i]` is what stands at
\* directory i of the path and `fs.data` what stands at the data path itself.
\* A directory is fully accessible ("dir"), not writable ("dir_ro") or not
\* searchable ("dir_nox"); the base above d1 is an accessible directory.
DirKinds == {"dir", "dir_ro", "dir_nox"}
DirStates == {"absent", "file"} \cup DirKinds
DataStates == {"absent", "file", "dir", "device", "loop"}

Levels == 1..Depth

\* below a missing entry, or a non-directory, there is nothing
Consistent(f) ==
    /\ \A i \in Levels : i > 1 /\ f.dirs[i] # "absent" => f.dirs[i - 1] \in DirKinds
    /\ f.data # "absent" => f.dirs[Depth] \in DirKinds

FileSystems == {f \in [dirs : [Levels -> DirStates], data : DataStates] : Consistent(f)}

\* path resolution through directories 1..n: the error of the first
\* component that cannot be walked through
RECURSIVE Walk(_, _, _)
Walk(dirs, i, n) ==
    IF i > n THEN "Ok"
    ELSE IF dirs[i] = "absent" THEN "NotFound"
    ELSE IF dirs[i] = "file" THEN "NotADirectory"
    ELSE IF dirs[i] = "dir_nox" THEN "PermissionDenied"
    ELSE Walk(dirs, i + 1, n)

\* mkdir(2) of directory n
mkdir(dirs, n) ==
    IF Walk(dirs, 1, n - 1) # "Ok" THEN [err |-> Walk(dirs, 1, n - 1), dirs |-> dirs]
    ELSE IF dirs[n] # "absent" THEN [err |-> "AlreadyExists", dirs |-> dirs]
    ELSE IF n > 1 /\ dirs[n - 1] = "dir_ro" THEN [err |-> "PermissionDenied", dirs |-> dirs]
    ELSE [err |-> "Ok", dirs |-> [dirs EXCEPT ![n] = "dir"]]

\* Path::is_dir of directory n
is_dir(dirs, n) == Walk(dirs, 1, n - 1) = "Ok" /\ dirs[n] \in DirKinds

\* fs::create_dir_all(self.data_directory()): mkdir; on NotFound create the
\* parent first and mkdir again; any other error is forgiven when the path is
\* a directory
RECURSIVE create_dir_all(_, _)
create_dir_all(dirs, n) ==
    IF n = 0 THEN [err |-> "Ok", dirs |-> dirs]
    ELSE LET first == mkdir(dirs, n) IN
         IF first.err = "Ok" THEN first
         ELSE IF first.err = "NotFound"
         THEN LET up == create_dir_all(dirs, n - 1) IN
              IF up.err # "Ok" THEN up
              ELSE LET again == mkdir(up.dirs, n) IN
                   IF again.err = "Ok" \/ ~is_dir(up.dirs, n) THEN again
                   ELSE [err |-> "Ok", dirs |-> up.dirs]
         ELSE IF is_dir(dirs, n) THEN [err |-> "Ok", dirs |-> dirs]
         ELSE first

\* fs::metadata(&self.data_path): stat(2), which follows symbolic links
metadata(f) ==
    IF Walk(f.dirs, 1, Depth) # "Ok" THEN [ok |-> FALSE, kind |-> Walk(f.dirs, 1, Depth)]
    ELSE IF f.data = "absent" THEN [ok |-> FALSE, kind |-> "NotFound"]
    ELSE IF f.data = "loop" THEN [ok |-> FALSE, kind |-> "FilesystemLoop"]
    ELSE [ok |-> TRUE, kind |-> f.data]

\* Metadata::is_file
is_file(m) == m.kind = "file"

\* the match of Config::setup on the answer of fs::metadata
SetupMatch(m) ==
    IF m.ok /\ is_file(m) THEN [ok |-> TRUE, val |-> "Login"]
    ELSE IF m.ok THEN [ok |-> FALSE, val |-> "Other"]
    ELSE [ok |-> TRUE, val |-> "CreateAccount"]

NoMeta == [ok |-> FALSE, kind |-> "none"]
NoSetup == [ok |-> FALSE, val |-> "none"]

SetupInit ==
    /\ fs \in FileSystems
    /\ fsBefore = fs
    /\ spc = "start"
    /\ meta = NoMeta
    /\ sres = NoSetup

\* Config::setup, first await: `fs::create_dir_all(..).await?`
setup_create_dir_all ==
    /\ spc = "start"
    /\ LET r == create_dir_all(fs.dirs, Depth) IN
         /\ fs' = [fs EXCEPT !.dirs = r.dirs]
         /\ IF r.err = "Ok"
            THEN /\ spc' = "metadata"
                 /\ UNCHANGED sres
            ELSE /\ spc' = "done"
                 /\ sres' = [ok |-> FALSE, val |-> r.err]
    /\ UNCHANGED <<fsBefore, meta, hvars, pvars>>

\* Config::setup, second await: `match fs::metadata(&self.data_path).await`
setup_metadata ==
    /\ spc = "metadata"
    /\ meta' = metadata(fs)
    /\ sres' = SetupMatch(metadata(fs))
    /\ spc' = "done"
    /\ UNCHANGED <<fs, fsBefore, hvars, pvars>>

\* ------------------------------------------- secret.rs, the container alone
\* Secret bytes: every byte string up to MaxLen over two byte values, and the
\* two uniform strings of 4096 bytes
ByteValues == {0, 255}
ByteStrings ==
    UNION {[1..n -> ByteValues] : n \in 0..MaxLen}
        \cup {[i \in 1..4096 |-> v] : v \in ByteValues}

\* impl Default for Password
default == from_unknown

\* the ways to build a Password: new with either Choice, from_known,
\* from_unknown, Default::default
Ctors == {"new_0", "new_1", "from_known", "from_unknown", "default"}

Build(ctor, bytes) ==
    CASE ctor = "new_0" -> new(bytes, 0)
      [] ctor = "new_1" -> new(bytes, 1)
      [] ctor = "from_known" -> from_known(bytes)
      [] ctor = "from_unknown" -> from_unknown
      [] ctor = "default" -> default

\* mutant: is_known looks into the buffer and leaves early when it is empty
is_known_steps_scan(p) ==
    IF Len(p.value) = 0 THEN <<"len">>
    ELSE <<"len", "CtOption::is_some", "Choice::into">>

\* the evaluation of `self.0.is_some().into()`: it takes the presence Choice
\* of the CtOption and converts it; there is no branch and the buffer is not
\* touched
is_known_steps(p) == <<"CtOption::is_some", "Choice::into">>

SecretIdle ==
    /\ secBytes = <<>>
    /\ secCtor = "none"
    /\ secPc = "idle"
    /\ secPwd = <<>>
    /\ secIsKnown = <<>>
    /\ secSteps = <<>>
    /\ secKnown = <<>>

SecretInit ==
    /\ secBytes \in ByteStrings
    /\ secCtor \in Ctors
    /\ secPc = "start"
    /\ secPwd = <<>>
    /\ secIsKnown = <<>>
    /\ secSteps = <<>>
    /\ secKnown = <<>>

\* one of the constructors is called with the bytes
construct ==
    /\ secPc = "start"
    /\ secPwd' = <<Build(secCtor, secBytes)>>
    /\ secPc' = "built"
    /\ UNCHANGED <<secBytes, secCtor, secIsKnown, secSteps, secKnown, hvars, svars>>

\* is_known(&self): the Password stays with the caller
is_known_call ==
    /\ secPc = "built"
    /\ secIsKnown' = <<is_known(secPwd[1])>>
    /\ secSteps' = is_known_steps(secPwd[1])
    /\ secPc' = "asked"
    /\ UNCHANGED <<secBytes, secCtor, secPwd, secKnown, hvars, svars>>

\* known(self): the Password is consumed
known_call ==
    /\ secPc \in {"built", "asked"}
    /\ secKnown' = <<known(secPwd[1])>>
    /\ secPwd' = <<>>
    /\ secPc' = "taken"
    /\ UNCHANGED <<secBytes, secCtor, secIsKnown, secSteps, hvars, svars>>

\* ------------------------------------------------------- specifications
\* the handshake specifications leave the resolver aside
SetupIdle ==
    /\ fs = [dirs |-> [i \in Levels |-> "absent"], data |-> "absent"]
    /\ fsBefore = fs
    /\ spc = "idle"
    /\ meta = NoMeta
    /\ sres = NoSetup

Init == HandshakeInit /\ SetupIdle /\ SecretIdle

\* the handshake with the store armed once, as main() does, and a consumer
\* that follows the calling convention
Next ==
    \/ into_channel_call
    \/ into_channel_lock
    \/ \E c \in Calls, s \in SecretStrings : load_call(c, s)
    \/ \E c \in Calls : load_lock(c)
    \/ \E c \in Calls : load_send(c)
    \/ \E c \in Calls : load_recv(c)
    \/ \E c \in Calls, s \in SecretStrings : load_exact_call(c, s)
    \/ \E c \in Calls : load_exact_lock(c)
    \/ \E c \in Calls : load_exact_send(c)
    \/ \E c \in Calls : clear_call(c)
    \/ \E c \in Calls : clear_lock(c)
    \/ \E c \in Calls : clear_send(c)
    \/ \E g \in Gens : wake(g)
    \/ \E g \in Gens : password_call(g)
    \/ \E g \in Gens : should_retry_true(g)
    \/ \E g \in Gens : request_password(g)
    \/ \E g \in Gens, m \in Messages : sleep(g, m)
    \/ \E g \in Gens : success(g)
    \/ \E g \in Gens : failure(g)
    \/ \E g \in Gens : validate_password(g)

Spec == Init /\ [][Next]_vars

\* the same with detachment: the User may be dropped and the store re-armed
NextDetach ==
    \/ Next
    \/ into_channel_again
    \/ \E g \in Gens : drop_user(g)

SpecDetach == Init /\ [][NextDetach]_vars

\* the setup resolver alone, started on every filesystem
InitSetup == HandshakeInit /\ SetupInit /\ SecretIdle

NextSetup ==
    \/ setup_create_dir_all
    \/ setup_metadata

SpecSetup == InitSetup /\ [][NextSetup]_vars

\* the Password container alone, built from every byte string
InitSecret == HandshakeInit /\ SetupIdle /\ SecretInit

NextSecret ==
    \/ construct
    \/ is_known_call
    \/ known_call

SpecSecret == InitSecret /\ [][NextSecret]_vars

\* ---------------------------------------------------------------- claims

\* C1: a load (submit) never receives a retry message that was sent for a
\* password other than its own: the message it receives was sent by the
\* consumer for the password of this very load, which the most recent
\* password() call returned.
C1_VerdictIsForOwnPassword ==
    ret.op = "load" /\ ret.got # "none" => ret.got = "own"

\* C2: when the consumer calls password() again, with no sleep in between,
\* after password() returned the password of a load that is parked on the
\* retry channel, that load returns true.
C2_RetriedSubmitReturnsTrue ==
    ret.op = "load" /\ ret.expect = "true" => ret.result = "true"

\* C3: when the consumer calls sleep after password() returned the password of
\* a load that is parked on the retry channel, that load returns false; and
\* while a load is parked no other command has got past the lock.
C3_ClosedSubmitReturnsFalse ==
    /\ ret.op = "load" /\ ret.expect = "false" => ret.result = "false"
    /\ \A c, d \in Calls : pc[c] = "recv" /\ d # c => pc[d] \in {"idle", "lock"}

\* C4: exactly-once delivery in the order sent: the passwords buffered in the
\* password channel are exactly the passwords sent and not yet returned, in
\* the order they were sent, and what password() returns is the oldest of
\* them (nothing dropped, overwritten, duplicated or invented).
C4_ExactlyOnceInOrder ==
    \A g \in Gens :
        /\ password[g] = pending[g]
        /\ cpc[g] = "got" => returned[g] # <<>> /\ returned[g] = owed[g]

\* a password() call got the known password of a load while the unknown
\* password of a cancel is already waiting behind it
C4_Witness ==
    \E g \in Gens :
        /\ cpc[g] = "got"
        /\ is_known(returned[g][1])
        /\ password[g] # <<>>
        /\ ~is_known(Head(password[g]).pw)

\* the steps that move a command past the lock, or the consumer
Progress ==
    \/ into_channel_lock
    \/ \E c \in Calls : load_lock(c) \/ load_send(c) \/ load_recv(c)
    \/ \E c \in Calls : load_exact_lock(c) \/ load_exact_send(c)
    \/ \E c \in Calls : clear_lock(c) \/ clear_send(c)
    \/ \E g \in Gens : wake(g) \/ password_call(g) \/ should_retry_true(g)
    \/ \E g \in Gens : request_password(g) \/ validate_password(g)
    \/ \E g \in Gens, m \in Messages : sleep(g, m)

\* the consumer is suspended in a channel operation and so is the command
\* that holds the lock; all that can still happen is that further commands
\* are invoked, and they queue up for the lock
Deadlocked ==
    /\ lockHolder \in Calls
    /\ pc[lockHolder] \in {"send", "recv"}
    /\ cpc[store] \in {"retry_send", "validate_send", "password_recv"}
    /\ ~ENABLED Progress

\* C5: the consumer and the producer are never both blocked for good.
C5_NoDeadlock == ~Deadlocked

\* C6: no command holds the lock while it is suspended on the password send
\* or on the retry receive.
C6_NoLockAcrossSuspension ==
    \A c \in Calls : pc[c] \in {"send", "recv"} => lockHolder # c

\* C7: each channel holds at most one undelivered message, and a send on an
\* occupied channel is not enabled: it waits until the message was received.
C7_SingleSlot ==
    /\ \A g \in Gens : Len(password[g]) <= 1 /\ Len(retry[g]) <= 1
    /\ \A c \in Calls :
         pc[c] = "send" /\ UserAlive(store) /\ password[store] # <<>>
            => ~ENABLED (load_send(c) \/ load_exact_send(c) \/ clear_send(c))
    /\ \A g \in Gens :
         cpc[g] \in {"retry_send", "validate_send"} /\ StoreHolds(g) /\ retry[g] # <<>>
            => ~ENABLED (should_retry_true(g) \/ validate_password(g))

\* a command waits with its password for the occupied password channel while
\* the consumer waits with its retry message for the occupied retry channel
C7_Witness ==
    /\ \E c \in Calls : pc[c] = "send" /\ password[store] # <<>>
    /\ \E g \in Gens : cpc[g] = "validate_send" /\ retry[g] # <<>>

\* C8: while the store has never been armed, load returns false, load_exact
\* and clear return, none of them waits for anything but the lock (which is
\* then free), and nothing is sent or changed in the coordinator.
C8_UnarmedIsNoOp ==
    store = 0 =>
        /\ ret.op = "load" => ret.result = "false"
        /\ ret.op \in {"load_exact", "clear"} => ret.result = "unit"
        /\ lockHolder = NoHolder
        /\ \A c \in Calls : pc[c] \in {"idle", "lock"}
        /\ \A c \in Calls : pc[c] = "lock" /\ Head(lockQueue) = c => ENABLED Lock(c, op[c])
        /\ \A g \in Gens : password[g] = <<>> /\ retry[g] = <<>> /\ cpc[g] = "none"

\* a load has just returned false from the unarmed store
C8_Witness == store = 0 /\ ret.op = "load" /\ ret.result = "false"

\* C9: a load that finds the consumer's channel ends dropped returns false.
C9_DetachedSubmitReturnsFalse ==
    ret.op = "load" /\ ret.detached => ret.result = "false"

\* C10: when fs::metadata fails for a reason other than the path not
\* existing, Config::setup fails.
C10_StatFailurePropagates ==
    spc = "done" /\ ~meta.ok /\ meta.kind \notin {"none", "NotFound"} => ~sres.ok

\* C11: when something other than a regular file stands at the data path (a
\* directory, a device, a symbolic link that does not resolve), Config::setup
\* fails: it returns neither CreateAccount nor Login.
C11_OccupiedSlotFails ==
    spc = "done" /\ fsBefore.data \notin {"absent", "file"} => ~sres.ok

\* C12: once the containing directory is there, Config::setup returns Login
\* for a data path that is a regular file and leaves the filesystem as it
\* was; for a data path that does not exist it returns CreateAccount and the
\* containing directory exists afterwards.
C12_NormalOutcomes ==
    spc = "done" /\ meta # NoMeta =>
        /\ fsBefore.data = "file" => sres = [ok |-> TRUE, val |-> "Login"] /\ fs = fsBefore
        /\ fsBefore.data = "absent" =>
              /\ sres = [ok |-> TRUE, val |-> "CreateAccount"]
              /\ is_dir(fs.dirs, Depth)

\* C13: from_known(b) is known and known() yields exactly b; from_unknown()
\* and default() are not known and known() yields nothing; for every
\* Password, known() yields a value if and only if is_known() is true.
C13_PresenceAndExtraction ==
    /\ secCtor = "from_known" =>
          /\ secIsKnown # <<>> => secIsKnown = <<TRUE>>
          /\ secKnown # <<>> => secKnown = << <<secBytes>> >>
    /\ secCtor \in {"from_unknown", "default"} =>
          /\ secIsKnown # <<>> => secIsKnown = <<FALSE>>
          /\ secKnown # <<>> => secKnown = << <<>> >>
    /\ secIsKnown # <<>> /\ secKnown # <<>> => (secKnown[1] # <<>> <=> secIsKnown[1])

\* a known password of two bytes was asked and then taken out
C13_Witness ==
    /\ secCtor = "from_known"
    /\ Len(secBytes) = 2
    /\ secIsKnown = <<TRUE>>
    /\ secKnown = << <<secBytes>> >>

\* C14: load returns true when the consumer accepted its password and closed
\* the round (sleep), and does not return true when the consumer rejected it
\* and asked for another password (password() again).
C14_TrueMeansCorrect ==
    ret.op = "load" =>
        /\ ret.expect = "false" => ret.result = "true"
        /\ ret.expect = "true" => ret.result # "true"

\* C16: a password() call sends a true retry message, and sends it before it
\* receives, exactly when the previous password() call of this User returned
\* a known password and no sleep happened since (so never on the first call,
\* after a sleep, or after an unknown password); it then receives one
\* password, sets waiting to that password's is_known() and returns that
\* same password.
C16_PasswordAlgorithm ==
    [][\A g \in Gens :
        /\ password_call(g) =>
              /\ cpc'[g] = "retry_send" <=>
                    (cpc[g] = "got" /\ returned[g] # <<>> /\ is_known(returned[g][1]))
              /\ cpc'[g] # "retry_send" => cpc'[g] = "password_recv"
              /\ retry' = retry /\ password' = password
        /\ should_retry_true(g) =>
              /\ retry'[g] = Append(retry[g], [val |-> TRUE, for |-> lastId[g]])
              /\ password' = password
              /\ cpc'[g] = "password_recv"
        /\ request_password(g) =>
              /\ password[g] # <<>>
              /\ password'[g] = Tail(password[g])
              /\ returned'[g] = <<Head(password[g]).pw>>
              /\ waiting'[g] = is_known(Head(password[g]).pw)
              /\ retry' = retry
              /\ cpc'[g] = "got"
      ]_vars

\* a second password() call in a row has sent its true retry message and is
\* about to receive
C16_Witness ==
    \E g \in Gens :
        /\ cpc[g] = "password_recv"
        /\ waiting[g]
        /\ retry[g] # <<>>
        /\ Head(retry[g]).val = TRUE

\* C17: sleep(Ok), sleep(Err), success and failure have the same effect from
\* every state, whatever the payload and whatever waiting was: waiting is set
\* to false, nothing else of the coordinator changes, and then exactly one
\* false retry message is sent.
C17_RoundCloseIgnoresVerdict ==
    [][\A g \in Gens :
        /\ \A m \in Messages :
              sleep(g, m) =>
                  /\ ~waiting'[g]
                  /\ cpc'[g] = "validate_send"
                  /\ retry' = retry /\ password' = password
        /\ sleep(g, "Ok") <=> sleep(g, "Err")
        /\ success(g) <=> sleep(g, "Ok")
        /\ failure(g) <=> sleep(g, "Err")
        /\ validate_password(g) =>
              /\ ~waiting'[g]
              /\ retry'[g] = Append(retry[g], [val |-> FALSE, for |-> lastId[g]])
              /\ password' = password
              /\ cpc'[g] = "idle"
      ]_vars

\* sleep was called after password() returned the known password of a parked
\* load, so with waiting true, and is about to send
C17_Witness ==
    \E g \in Gens :
        /\ cpc[g] = "validate_send"
        /\ Parked(g)
        /\ ~waiting[g]

\* C18: clear on an armed store sends exactly one unknown password and
\* returns without receiving anything from the retry channel; the password()
\* call that receives it returns a password that is not known and leaves
\* waiting false.
C18_CancelIsFireAndForget ==
    [][/\ \A c \in Calls :
            clear_send(c) =>
                /\ password'[store] = Append(password[store],
                                             [pw |-> from_unknown, id |-> Gone])
                /\ ~is_known(from_unknown)
                /\ retry' = retry
                /\ pc'[c] = "idle"
                /\ ret'.op = "clear" /\ ret'.result = "unit"
       /\ \A g \in Gens :
            request_password(g) /\ password[g] # <<>> /\ ~is_known(Head(password[g]).pw) =>
                /\ returned'[g] = <<Head(password[g]).pw>>
                /\ ~is_known(returned'[g][1])
                /\ ~waiting'[g]
      ]_vars

\* a password() call has returned the unknown password of a clear
C18_Witness ==
    \E g \in Gens :
        /\ cpc[g] = "got"
        /\ returned[g] = <<from_unknown>>
        /\ ~waiting[g]

C19_IdleIsInitial ==
    [][\A g \in Gens :
        (/\ validate_password(g)
         /\ cpc'[g] = "idle"
         /\ armPc' = "idle"
         /\ \A c \in Calls : pc'[c] = "idle")
        => ~waiting'[g] /\ password'[g] = <<>> /\ retry'[g] = <<>>
      ]_vars

\* C20: a sleep that has reached its retry send can complete it at once,
\* without any step of a producer.
C20_SleepNeverWaits ==
    \A g \in Gens :
        cpc[g] = "validate_send" /\ StoreHolds(g) => ENABLED validate_password(g)

\* C21: producer calls are serialized: a command that is past the lock and
\* has not returned holds the lock, so there is at most one; while a load is
\* parked waiting for its retry message no password is sent; and the store's
\* channel pair is replaced only while no command is past the lock.
C21_ProducerCallsSerialized ==
    /\ [](\A c \in Calls : pc[c] \in {"send", "recv"} => lockHolder = c)
    /\ [][/\ (\E c \in Calls : pc[c] = "recv" /\ pc'[c] = "recv")
              => \A g \in Gens : Len(pending'[g]) <= Len(pending[g])
           /\ store' # store => \A c \in Calls : pc[c] \in {"idle", "lock"}
          ]_vars

\* a load is parked while a clear and a further into_channel wait for the lock
C21_Witness ==
    /\ store > 0
    /\ armPc = "lock"
    /\ \E c, d \in Calls : pc[c] = "recv" /\ pc[d] = "lock" /\ op[d] = "clear"

====
